---------------------------- MODULE Spec2Model ----------------------------
(***************************************************************************)
(* Model of BearMods (src/app.py): the scan-hash-diff-apply pipeline and   *)
(* the session state machine of UpdaterApp that drives it.                 *)
(*                                                                         *)
(* Seven specifications share the module:                                  *)
(*   SpecDiff   the diff loops of _scan_all over arbitrary path maps,      *)
(*   SpecApply  scan of two trees, diff, and _do_apply step by step,       *)
(*   SpecBackup _do_backup on a tree and the extraction of its zip,        *)
(*   SpecFetch  download_and_extract_zip statement by statement,           *)
(*   SpecScan   scan_dir_with_hashes on trees with filtered names,         *)
(*   Spec       the session (UpdaterApp's stage machine, its dialogs and   *)
(*              its WorkerThreads),                                        *)
(*   FairSpec   Spec with every started thread scheduled (weak fairness).  *)
(***************************************************************************)
EXTENDS Naturals, Integers, Sequences, FiniteSets, TLC

VARIABLES
    \* ---- _scan_all's locals (SpecDiff, SpecApply)
    mod_map,        \* scan of the live tree: sequence of entries, dict order
    repo_map,       \* scan of the staging tree
    deletes, adds, replaces, ignores,   \* the four buckets (sequences of FileMeta)
    dpc,            \* "start" | "diffed"
    \* ---- the file systems and _do_apply's locals (SpecApply)
    live,           \* the Mods tree: path -> "none" | "dir" | content | link
    live0,          \* the Mods tree as it was when it was scanned
    staging,        \* the extracted reference tree (repo_dir)
    backup_before_apply,
    apc,            \* position in _do_apply
    done,           \* _do_apply's counter of processed items
    swallowed,      \* deletion entries whose removal raised (except ...: pass)
    events,         \* progress events emitted so far: <<percent, tag>>
    aresult,        \* "" | "ok" | "error"
    aout,           \* what _do_apply returned, or what the exception it raised names
    \* ---- the session (Spec)
    state,          \* UpdaterApp.state
    worker,         \* UpdaterApp.worker: id of the last thread created, 0 = None
    threads,        \* every WorkerThread created: id -> record
    progress_dialog,\* "none" | "open" | "dismissed"
    temps,          \* TemporaryDirectory objects: id -> "live" | "cleaned"
    \* ---- _do_backup (SpecBackup); the tree it copies is live
    backup_path,    \* the ephemeral copy on the Desktop: a tree
    zip_file,       \* the archive written by create_zip_backup: its entries
    extracted,      \* the tree a full extraction of zip_file gives
    callbacks,      \* progress_callback calls of copy_dir_all and create_zip_backup
    bpc,            \* position in _do_backup
    \* ---- download_and_extract_zip (SpecFetch)
    response,       \* what requests.get answers and what the body holds
    written,        \* bytes written to tmp_zip so far
    tmp_zip,        \* the temporary archive: does it exist, and its size
    extract_to,     \* names of the archive entries extracted into the staging directory
    pending,        \* the exception on its way out of the try block
    removal,        \* what the finally block did about tmp_zip
    foutcome,       \* how the function ended: returned, or raised and with what
    fpc             \* position in download_and_extract_zip

diffVars  == <<mod_map, repo_map, deletes, adds, replaces, ignores, dpc>>
applyVars == <<live, live0, staging, backup_before_apply, apc, done, swallowed, events,
               aresult, aout>>
sessVars  == <<state, worker, threads, progress_dialog, temps>>
backupVars == <<backup_path, zip_file, extracted, callbacks, bpc>>
fetchVars  == <<response, written, tmp_zip, extract_to, pending, removal, foutcome, fpc>>
vars      == <<diffVars, applyVars, sessVars, backupVars, fetchVars>>

---------------------------------------------------------------------------
(* Bounds of the model.                                                    *)

\* longest path map drawn in SpecDiff
MaxMapLen == 2
\* most entries (files and directories) of a tree drawn in SpecApply
MaxEntries == 2
\* deepest entry of a tree drawn in SpecApply
MaxDepth == 2
\* most WorkerThreads the session creates in one run
MaxThreads == 3
\* most chunks iter_content yields in SpecFetch
MaxChunks == 2
\* most entries of the downloaded archive in SpecFetch
MaxZipEntries == 2
\* deepest entry of a tree drawn in SpecScan
MaxScanDepth == 3

---------------------------------------------------------------------------
(* Names, relative paths, contents.                                        *)
(* A file name is a tuple of tokens, so that str.startswith and            *)
(* str.endswith are decided by the first and the last token.               *)

NameX   == <<"x">>
NameLog == <<"g", ".log">>
Names   == {NameX, NameLog}

\* the names the filter of scan_dir_with_hashes tells apart (SpecScan)
NameGit       == <<".git">>
NameGithub    == <<".git", "hub">>
NameGitignore == <<".git", "ignore">>
NamePycache   == <<"__pycache__">>
NameTmp       == <<"a", ".TMP">>
ScanNames == {NameX, NameLog, NameGit, NameGithub, NameGitignore, NamePycache, NameTmp}

\* the order in which os.walk lists the names of one directory
NameOrder == <<NameX, NameLog, NameGit, NameGithub, NameGitignore, NamePycache, NameTmp>>

startswith(name, tok) == Len(name) >= 1 /\ name[1] = tok
endswith(name, tok)   == Len(name) >= 1 /\ name[Len(name)] = tok

LowerTok(t) ==
    CASE t = ".LOG" -> ".log"
      [] t = ".TMP" -> ".tmp"
      [] OTHER -> t
lower(name) == [i \in DOMAIN name |-> LowerTok(name[i])]

\* rel_path values: non-empty sequences of names; <<>> is the root, "."
PathsUpTo(n) == UNION {[1..k -> Names] : k \in 1..n}
\* the paths a drawn tree may hold
InitPaths == PathsUpTo(MaxDepth)
\* the paths a tree may come to hold: shutil.copy2 onto a directory writes one
\* level below it
Paths == PathsUpTo(MaxDepth + 1)

Parent(p)   == SubSeq(p, 1, Len(p) - 1)
Basename(p) == p[Len(p)]

Contents == {"c1", "c2"}

\* a file whose inode has other names in the tree (hard links): "l1" and "l2"
\* are names of the one shared inode, holding content c1 or c2
Linked == {"l1", "l2"}
FileValues == Contents \cup Linked
content(v) == IF v \in {"c1", "l1"} THEN "c1" ELSE "c2"
link(c) == IF c = "c1" THEN "l1" ELSE "l2"

\* hash_file: the digest of a file's content
hash_file(c) ==
    CASE c \in {"c1", "l1"} -> "h1"
      [] c \in {"c2", "l2"} -> "h2"
      [] OTHER -> "ERR"
Hashes == {hash_file(c) : c \in Contents}

IsDir(t, p)  == p = <<>> \/ (p \in DOMAIN t /\ t[p] = "dir")
IsFile(t, p) == p \in DOMAIN t /\ t[p] \in FileValues
Exists(t, p) == p = <<>> \/ (p \in DOMAIN t /\ t[p] # "none")

---------------------------------------------------------------------------
(* scan_dir_with_hashes                                                    *)

RECURSIVE ConcatAll(_)
ConcatAll(ss) == IF ss = <<>> THEN <<>> ELSE Head(ss) \o ConcatAll(Tail(ss))

MapSeq(s, F(_)) == [i \in DOMAIN s |-> F(s[i])]

\* the sub-directories and the files of directory base, in listing order
ListDirs(t, base) ==
    SelectSeq(NameOrder, LAMBDA n : base \o <<n>> \in DOMAIN t /\ t[base \o <<n>>] = "dir")
ListFiles(t, base) ==
    SelectSeq(NameOrder, LAMBDA n : base \o <<n>> \in DOMAIN t /\ t[base \o <<n>>] \in FileValues)

\* os.walk(top-down): a directory, then the walk of each of its sub-directories
RECURSIVE os_walk(_, _)
os_walk(t, base) ==
    <<base>> \o
    ConcatAll(MapSeq(ListDirs(t, base),
                     LAMBDA d : os_walk(t, base \o <<d>>)))

PathEntry(p, d, h) == [rel_path |-> p, is_dir |-> d, hash |-> h]

skip_dir(rel_base, filter_garbage) ==
    filter_garbage /\ Len(rel_base) >= 1 /\ startswith(rel_base[1], ".git")

dir_filtered(d, filter_garbage) ==
    filter_garbage /\ (d \in {<<".git">>, <<"__pycache__">>} \/ endswith(lower(d), ".tmp"))

file_filtered(f, filter_garbage) ==
    filter_garbage /\ (f = <<".git", "ignore">> \/ endswith(lower(f), ".tmp")
                                               \/ endswith(lower(f), ".log"))

scan_base(t, base, filter_garbage) ==
    IF skip_dir(base, filter_garbage) THEN <<>>
    ELSE
        MapSeq(SelectSeq(ListDirs(t, base),
                         LAMBDA d : ~dir_filtered(d, filter_garbage)),
               LAMBDA d : PathEntry(base \o <<d>>, TRUE, ""))
        \o
        MapSeq(SelectSeq(ListFiles(t, base),
                         LAMBDA f : ~file_filtered(f, filter_garbage)),
               LAMBDA f : PathEntry(base \o <<f>>, FALSE, hash_file(t[base \o <<f>>])))

scan_dir_with_hashes(t, filter_garbage) ==
    ConcatAll(MapSeq(os_walk(t, <<>>), LAMBDA b : scan_base(t, b, filter_garbage)))

---------------------------------------------------------------------------
(* The diff of _scan_all                                                   *)

Keys(m) == {m[i].rel_path : i \in DOMAIN m}
Lookup(m, k) == m[CHOOSE i \in DOMAIN m : m[i].rel_path = k]

FileMeta(p, d) == [rel_path |-> p, is_dir |-> d]

\* for mfp, mmeta in mod_map.items(): if mfp not in repo_map
DiffDeletes_wrongFlag(mm, rm) ==
    MapSeq(SelectSeq(mm, LAMBDA e : e.rel_path \notin Keys(rm)),
           LAMBDA e : FileMeta(e.rel_path, FALSE))
DiffDeletes(mm, rm) ==
    MapSeq(SelectSeq(mm, LAMBDA e : e.rel_path \notin Keys(rm)),
           LAMBDA e : FileMeta(e.rel_path, e.is_dir))

\* for rfp, rmeta in repo_map.items(): if rfp not in mod_map
DiffAdds(mm, rm) ==
    MapSeq(SelectSeq(rm, LAMBDA e : e.rel_path \notin Keys(mm)),
           LAMBDA e : FileMeta(e.rel_path, e.is_dir))

\* if not rmeta["is_dir"] and rmeta["hash"] != mmeta["hash"]
IsReplace(mm, e) ==
    /\ e.rel_path \in Keys(mm)
    /\ ~e.is_dir
    /\ e.hash # Lookup(mm, e.rel_path).hash

DiffReplaces(mm, rm) ==
    MapSeq(SelectSeq(rm, LAMBDA e : IsReplace(mm, e)),
           LAMBDA e : FileMeta(e.rel_path, FALSE))

\* elif rmeta["is_dir"] == mmeta["is_dir"]
IsIgnore_filesOnly(mm, e) ==
    /\ e.rel_path \in Keys(mm)
    /\ ~IsReplace(mm, e)
    /\ ~e.is_dir /\ ~Lookup(mm, e.rel_path).is_dir
IsIgnore_notElif(mm, e) ==
    /\ e.rel_path \in Keys(mm)
    /\ e.is_dir = Lookup(mm, e.rel_path).is_dir
IsIgnore(mm, e) ==
    /\ e.rel_path \in Keys(mm)
    /\ ~IsReplace(mm, e)
    /\ e.is_dir = Lookup(mm, e.rel_path).is_dir

DiffIgnores(mm, rm) ==
    MapSeq(SelectSeq(rm, LAMBDA e : IsIgnore(mm, e)),
           LAMBDA e : FileMeta(e.rel_path, e.is_dir))

---------------------------------------------------------------------------
(* Initial values of the variable groups a specification does not use.     *)

NoState ==
    [stage |-> "idle", mods_path |-> FALSE,
     deletes |-> <<>>, adds |-> <<>>, replaces |-> <<>>, ignores |-> <<>>,
     backup_path |-> "", error |-> "", err_details |-> "",
     repo_dir |-> 0, repo_temp |-> 0, backup_before_apply |-> FALSE]

DiffIdle ==
    /\ mod_map = <<>> /\ repo_map = <<>>
    /\ deletes = <<>> /\ adds = <<>> /\ replaces = <<>> /\ ignores = <<>>
    /\ dpc = "start"

EmptyTree == [p \in Paths |-> "none"]

\* _do_apply has neither returned nor raised
NoResult ==
    [path |-> "", what |-> "",
     src |-> [root |-> "", rel_path |-> <<>>], dst |-> [root |-> "", rel_path |-> <<>>]]

ApplyIdle ==
    /\ live = EmptyTree /\ live0 = EmptyTree /\ staging = EmptyTree
    /\ backup_before_apply = FALSE
    /\ apc = "idle" /\ done = 0 /\ swallowed = {} /\ events = <<>> /\ aresult = ""
    /\ aout = NoResult

SessIdle ==
    /\ state = NoState
    /\ worker = 0
    /\ threads = <<>>
    /\ progress_dialog = "none"
    /\ temps = <<>>

\* no archive has been written
NoZip == [exists |-> FALSE, entries |-> <<>>]

BackupIdle ==
    /\ backup_path = EmptyTree /\ zip_file = NoZip /\ extracted = EmptyTree
    /\ callbacks = <<>> /\ bpc = "idle"

\* no response yet; bad_zip: the body is not a zip archive
NoResponse ==
    [status |-> 0, content_length |-> 0, chunks |-> <<>>,
     bad_zip |-> FALSE, entries |-> <<>>]

NoException == [what |-> "", status |-> 0, filename |-> ""]

NoOutcome == [kind |-> "", err |-> NoException]

FetchIdle ==
    /\ response = NoResponse /\ written = 0
    /\ tmp_zip = [exists |-> FALSE, size |-> 0]
    /\ extract_to = <<>> /\ pending = NoException /\ removal = ""
    /\ foutcome = NoOutcome
    /\ fpc = "idle"

---------------------------------------------------------------------------
(* SpecDiff: the diff over every pair of path maps.                        *)

\* the keys the path maps of SpecDiff are drawn over
DiffKeys == {<<NameX>>, <<NameLog>>, <<NameX, NameX>>}

\* what a scan stores for a key: "" for a directory, the digest for a file
Entries ==
    {PathEntry(p, TRUE, "") : p \in DiffKeys}
    \cup {PathEntry(p, FALSE, h) : p \in DiffKeys, h \in Hashes}

\* dicts: no key twice
PathMaps ==
    UNION {{m \in [1..n -> Entries] :
               \A i, j \in 1..n : m[i].rel_path = m[j].rel_path => i = j}
           : n \in 0..MaxMapLen}

InitDiff ==
    /\ mod_map \in PathMaps
    /\ repo_map \in PathMaps
    /\ deletes = <<>> /\ adds = <<>> /\ replaces = <<>> /\ ignores = <<>>
    /\ dpc = "start"
    /\ ApplyIdle
    /\ SessIdle
    /\ BackupIdle
    /\ FetchIdle

\* _scan_all, lines 753-766
ScanDiff ==
    /\ dpc = "start"
    /\ deletes'  = DiffDeletes(mod_map, repo_map)
    /\ adds'     = DiffAdds(mod_map, repo_map)
    /\ replaces' = DiffReplaces(mod_map, repo_map)
    /\ ignores'  = DiffIgnores(mod_map, repo_map)
    /\ dpc' = "diffed"
    /\ UNCHANGED <<mod_map, repo_map, applyVars, sessVars, backupVars, fetchVars>>

NextDiff == ScanDiff

SpecDiff == InitDiff /\ [][NextDiff]_vars

---------------------------------------------------------------------------
(* Claims about the diff (checked under SpecDiff).                         *)

BucketKeys(b) == {b[i].rel_path : i \in DOMAIN b}
NoDuplicateKey(b) == \A i, j \in DOMAIN b : b[i].rel_path = b[j].rel_path => i = j
InBoth(k) == k \in Keys(mod_map) /\ k \in Keys(repo_map)
TypeMismatch(k) ==
    InBoth(k) /\ Lookup(mod_map, k).is_dir # Lookup(repo_map, k).is_dir
BucketsHolding(k) ==
    {n \in 1..4 : k \in BucketKeys(<<deletes, adds, replaces, ignores>>[n])}

\* C1: deletions are exactly the keys of mod_map that repo_map lacks, each
\* with mod_map's is_dir flag; additions are exactly the keys of repo_map that
\* mod_map lacks, each with repo_map's is_dir flag.
C1_DeletionsAdditions ==
    dpc = "diffed" =>
        /\ BucketKeys(deletes) = Keys(mod_map) \ Keys(repo_map)
        /\ \A i \in DOMAIN deletes :
               deletes[i].is_dir = Lookup(mod_map, deletes[i].rel_path).is_dir
        /\ BucketKeys(adds) = Keys(repo_map) \ Keys(mod_map)
        /\ \A i \in DOMAIN adds :
               adds[i].is_dir = Lookup(repo_map, adds[i].rel_path).is_dir

C1_Witness ==
    /\ dpc = "diffed"
    /\ \E i \in DOMAIN deletes : deletes[i].is_dir
    /\ \E i \in DOMAIN adds : ~adds[i].is_dir
    /\ Keys(mod_map) \cap Keys(repo_map) # {}

\* C2 (the claim as stated): every replacement is a key of both maps that is a
\* file in mod_map and a file in repo_map, with different hashes.
C2_ReplacementsFileFile ==
    dpc = "diffed" =>
        \A i \in DOMAIN replaces :
            LET k == replaces[i].rel_path IN
            /\ InBoth(k)
            /\ ~Lookup(mod_map, k).is_dir
            /\ ~Lookup(repo_map, k).is_dir
            /\ Lookup(mod_map, k).hash # Lookup(repo_map, k).hash

\* C3: the diff of a map against itself has no deletion, addition or
\* replacement, and its ignores are exactly the keys of the map.
C3_DiffSelf ==
    (dpc = "diffed" /\ mod_map = repo_map) =>
        /\ deletes = <<>> /\ adds = <<>> /\ replaces = <<>>
        /\ BucketKeys(ignores) = Keys(mod_map)
        /\ Len(ignores) = Len(mod_map)

C3_Witness ==
    /\ dpc = "diffed" /\ mod_map = repo_map
    /\ \E i \in DOMAIN mod_map : mod_map[i].is_dir
    /\ \E i \in DOMAIN mod_map : ~mod_map[i].is_dir

\* C4: the four buckets are pairwise disjoint by key, none holds a key twice,
\* and every key of either map that is not a directory/file type mismatch is
\* in exactly one bucket.
C4_BucketsPartition ==
    dpc = "diffed" =>
        /\ \A k \in Keys(mod_map) \cup Keys(repo_map) :
               /\ Cardinality(BucketsHolding(k)) <= 1
               /\ ~TypeMismatch(k) => Cardinality(BucketsHolding(k)) = 1
        /\ NoDuplicateKey(deletes) /\ NoDuplicateKey(adds)
        /\ NoDuplicateKey(replaces) /\ NoDuplicateKey(ignores)

C4_Witness ==
    /\ dpc = "diffed"
    /\ deletes # <<>> /\ replaces # <<>>
    /\ \E k \in Keys(mod_map) : TypeMismatch(k)

\* C5 (the claim as stated): a key of both maps whose is_dir flag differs
\* between them is in none of the four buckets.
C5_TypeMismatchDropped ==
    dpc = "diffed" =>
        \A k \in Keys(mod_map) \cup Keys(repo_map) :
            TypeMismatch(k) => BucketsHolding(k) = {}

---------------------------------------------------------------------------
(* File-system operations used by _do_apply.                               *)

IsPrefix(p, q) == Len(p) <= Len(q) /\ SubSeq(q, 1, Len(p)) = p
Prefixes(p) == {SubSeq(p, 1, k) : k \in 1..Len(p)}

\* os.remove(target)
os_remove(t, p) == [t EXCEPT ![p] = "none"]

\* the bottom-up os.walk of lines 831-839: every file and sub-directory below
\* target is removed, then target itself
remove_tree(t, p) == [q \in DOMAIN t |-> IF IsPrefix(p, q) THEN "none" ELSE t[q]]

\* os.makedirs(p) raises when a component of p is a file
makedirs_ok(t, p) == \A q \in Prefixes(p) : t[q] \in {"none", "dir"}
os_makedirs(t, p) ==
    [q \in DOMAIN t |-> IF q \in Prefixes(p) /\ t[q] = "none" THEN "dir" ELSE t[q]]

\* shutil.copy2(src, dst): onto a directory it writes dst/basename(src)
copy2_target(t, p) == IF IsDir(t, p) THEN p \o <<Basename(p)>> ELSE p
copy2_ok(t, s, p) ==
    LET real == copy2_target(t, p) IN
    /\ IsFile(s, p)
    /\ real \in DOMAIN t
    /\ ~IsDir(t, real)
    /\ IsDir(t, Parent(real))
\* an existing destination is opened for writing and truncated: the new
\* content reaches every name of its inode
shutil_copy2(t, s, p) ==
    LET real == copy2_target(t, p) IN
    IF t[real] \in Linked
    THEN [q \in DOMAIN t |-> IF t[q] \in Linked THEN link(content(s[p])) ELSE t[q]]
    ELSE [t EXCEPT ![real] = content(s[p])]

---------------------------------------------------------------------------
(* Progress percentages, kept exact as fractions n/d.                      *)

Frac(n, d) == [n |-> n, d |-> d]
Leq(p, q)  == p.n * q.d <= q.n * p.d
\* p * a / b
Times(p, a, b) == Frac(p.n * a, p.d * b)
\* k + p
Plus(k, p) == Frac(k * p.d + p.n, p.d)

Event(p, tag) == [percent |-> p, tag |-> tag]

FileCount(t) == Cardinality({p \in DOMAIN t : t[p] \in FileValues})

\* copy_dir_all reporting copied / total_files * 100 once before its loop
copy_dir_all_percents_eager(total_files) ==
    <<Frac(0, total_files)>>
    \o [i \in 1..total_files |-> Frac(i * 100, total_files)] \o <<Frac(100, 1)>>

\* the percents copy_dir_all hands to its progress_callback (lines 55-59)
copy_dir_all_percents(total_files) ==
    [i \in 1..total_files |-> Frac(i * 100, total_files)] \o <<Frac(100, 1)>>

\* the percents create_zip_backup hands to its progress_callback (lines 69-85)
create_zip_backup_percents(total_files) ==
    <<Frac(0, 1)>> \o [i \in 1..total_files |-> Frac(i * 100, total_files)]
    \o <<Frac(100, 1)>>

\* _do_apply's copy_progress and zip_progress (lines 805-813)
apply_copy_progress(p) == Event(Times(p, 6, 10), "apply")
apply_zip_progress(p)  == Event(Plus(60, Times(p, 2, 10)), "apply")

\* progress_callback(20, "Backup complete.", "apply"), line 819
apply_backup_complete == Event(Frac(20, 1), "apply")

\* the events of Phase 0 (lines 801-819) up to the point it is left:
\* "copy", "zip", "rmtree" name the call that raised, "ok" is success
backup_events(t, upto) ==
    LET n == FileCount(t)
        e0 == <<Event(Frac(0, 1), "apply")>>
        ec == MapSeq(copy_dir_all_percents(n), apply_copy_progress)
        ez == MapSeq(create_zip_backup_percents(n), apply_zip_progress)
    IN  CASE upto = "copy"   -> e0
          [] upto = "zip"    -> e0 \o ec
          [] upto = "rmtree" -> e0 \o ec \o ez
          [] OTHER           -> e0 \o ec \o ez \o <<apply_backup_complete>>

\* percent = 20 + (done / total) * 70, lines 848 and 868
item_percent(d, total) == Event(Plus(20, Frac(d * 70, total)), "apply")

---------------------------------------------------------------------------
(* SpecApply: two trees are scanned and diffed, then _do_apply runs.       *)

Shapes ==
    {S \in SUBSET InitPaths :
        /\ Cardinality(S) <= MaxEntries
        /\ \A p \in S : Len(p) > 1 => Parent(p) \in S}

TreesOf(S) ==
    {[p \in Paths |-> IF p \in S THEN f[p] ELSE "none"] :
        f \in {g \in [S -> {"dir"} \cup Contents] :
                  \A p \in S : Len(p) > 1 => g[Parent(p)] = "dir"}}

Trees == UNION {TreesOf(S) : S \in Shapes}

\* the trees whose files are all names of one inode
LinkedTrees ==
    {[p \in Paths |-> IF t[p] \in Contents THEN link(t[p]) ELSE t[p]] :
        t \in {u \in Trees : /\ FileCount(u) >= 2
                             /\ \A p, q \in Paths :
                                   (IsFile(u, p) /\ IsFile(u, q)) => u[p] = u[q]}}

InitApply ==
    /\ live \in Trees \cup LinkedTrees
    /\ live0 = live
    /\ staging \in Trees
    /\ backup_before_apply \in BOOLEAN
    /\ apc = "scan" /\ done = 0 /\ swallowed = {} /\ events = <<>> /\ aresult = ""
    /\ aout = NoResult
    /\ DiffIdle
    /\ SessIdle
    /\ BackupIdle
    /\ FetchIdle

\* _scan_all, lines 751-768: the live tree is scanned with the filter, the
\* staging tree without
ScanTrees ==
    /\ apc = "scan"
    /\ LET mm == scan_dir_with_hashes(live, TRUE)
           rm == scan_dir_with_hashes(staging, FALSE)
       IN  /\ mod_map' = mm
           /\ repo_map' = rm
           /\ deletes'  = DiffDeletes(mm, rm)
           /\ adds'     = DiffAdds(mm, rm)
           /\ replaces' = DiffReplaces(mm, rm)
           /\ ignores'  = DiffIgnores(mm, rm)
    /\ dpc' = "diffed"
    /\ apc' = "start"
    /\ UNCHANGED <<live, live0, staging, backup_before_apply, done, swallowed,
                   events, aresult, aout, sessVars, backupVars, fetchVars>>

\* Phase 0, lines 800-819
ApplyBackup ==
    /\ apc = "start" /\ backup_before_apply
    /\ events' = events \o backup_events(live, "ok")
    /\ apc' = "run"
    /\ UNCHANGED <<diffVars, live, live0, staging, backup_before_apply, done,
                   swallowed, aresult, aout, sessVars, backupVars, fetchVars>>

\* a Phase 0 whose failure is caught, the apply going on without a backup
ApplyBackupFail_goesOn ==
    /\ apc = "start" /\ backup_before_apply
    /\ \E upto \in {"copy", "zip", "rmtree"} :
           events' = events \o backup_events(live, upto)
    /\ apc' = "run"
    /\ aout' = [NoResult EXCEPT !.what = "backup"]
    /\ UNCHANGED <<diffVars, live, live0, staging, backup_before_apply, done,
                   swallowed, aresult, sessVars, backupVars, fetchVars>>

\* Phase 0 raising in copy_dir_all, create_zip_backup or shutil.rmtree
ApplyBackupFail ==
    /\ apc = "start" /\ backup_before_apply
    /\ \E upto \in {"copy", "zip", "rmtree"} :
           events' = events \o backup_events(live, upto)
    /\ apc' = "failed"
    /\ aresult' = "error"
    /\ aout' = [NoResult EXCEPT !.what = "backup"]
    /\ UNCHANGED <<diffVars, live, live0, staging, backup_before_apply, done,
                   swallowed, sessVars, backupVars, fetchVars>>

InLoops == apc = "run" \/ (apc = "start" /\ ~backup_before_apply)

total_items == Len(deletes) + Len(adds) + Len(replaces)

\* what one pass of the deletion loop does to the tree when nothing raises
delete_entry(t, meta) ==
    LET target == meta.rel_path IN
    IF ~Exists(t, target) THEN t
    ELSE IF meta.is_dir
         THEN (IF IsDir(t, target) THEN remove_tree(t, target) ELSE t)
         ELSE (IF IsFile(t, target) THEN os_remove(t, target) ELSE t)

\* a deletion loop without the try/except of lines 828-845
ApplyDelete_fatal ==
    /\ InLoops
    /\ done < Len(deletes)
    /\ LET meta == deletes[done + 1] IN
       \E raised \in BOOLEAN :
           /\ raised => Exists(live, meta.rel_path)
           /\ live' = IF raised THEN live ELSE delete_entry(live, meta)
           /\ swallowed' = IF raised THEN swallowed \cup {meta.rel_path} ELSE swallowed
           /\ done' = IF raised THEN done ELSE done + 1
           /\ events' = IF raised THEN events
                        ELSE Append(events, item_percent(done + 1, total_items))
           /\ apc' = IF raised THEN "failed" ELSE "run"
           /\ aresult' = IF raised THEN "error" ELSE aresult
    /\ UNCHANGED <<diffVars, live0, staging, backup_before_apply, aout, sessVars,
                  backupVars, fetchVars>>

\* Phase 1, lines 825-849: one pass of "for meta in deletes"
ApplyDelete ==
    /\ InLoops
    /\ done < Len(deletes)
    /\ LET meta == deletes[done + 1] IN
       \E raised \in BOOLEAN :
           /\ raised => Exists(live, meta.rel_path)
           /\ live' = IF raised THEN live ELSE delete_entry(live, meta)
           /\ swallowed' = IF raised THEN swallowed \cup {meta.rel_path} ELSE swallowed
    /\ done' = done + 1
    /\ events' = Append(events, item_percent(done + 1, total_items))
    /\ apc' = "run"
    /\ UNCHANGED <<diffVars, live0, staging, backup_before_apply, aresult, aout,
                   sessVars, backupVars, fetchVars>>

\* whether one pass of the copy loop gets through without an exception
copy_entry_ok(t, s, meta) ==
    LET dst == meta.rel_path IN
    IF meta.is_dir
    THEN Exists(t, dst) \/ makedirs_ok(t, dst)
    ELSE IF Exists(s, dst)
         THEN /\ Exists(t, Parent(dst)) \/ makedirs_ok(t, Parent(dst))
              /\ copy2_ok(IF Exists(t, Parent(dst)) THEN t ELSE os_makedirs(t, Parent(dst)),
                          s, dst)
         ELSE TRUE

\* what that pass does to the tree
copy_entry(t, s, meta) ==
    LET dst == meta.rel_path IN
    IF meta.is_dir
    THEN (IF Exists(t, dst) THEN t ELSE os_makedirs(t, dst))
    ELSE IF Exists(s, dst)
         THEN shutil_copy2(IF Exists(t, Parent(dst)) THEN t ELSE os_makedirs(t, Parent(dst)),
                           s, dst)
         ELSE t

\* Phase 2, lines 851-869: one pass of "for meta in adds + replaces"
ApplyCopy ==
    /\ InLoops
    /\ Len(deletes) <= done /\ done < total_items
    /\ LET meta == (adds \o replaces)[done - Len(deletes) + 1] IN
       /\ copy_entry_ok(live, staging, meta)
       /\ live' = copy_entry(live, staging, meta)
    /\ done' = done + 1
    /\ events' = Append(events, item_percent(done + 1, total_items))
    /\ apc' = "run"
    /\ UNCHANGED <<diffVars, live0, staging, backup_before_apply, swallowed,
                   aresult, aout, sessVars, backupVars, fetchVars>>

\* Exception(f"Copy failed for {src} to {dst}: {ex}"), lines 852-853 and 865
copy_failed(meta) ==
    [NoResult EXCEPT !.what = "Copy failed",
                     !.src = [root |-> "repo_dir", rel_path |-> meta.rel_path],
                     !.dst = [root |-> "mods_path", rel_path |-> meta.rel_path]]

\* a copy loop that carries on after a failed entry
ApplyCopyFail_swallowed ==
    /\ InLoops
    /\ Len(deletes) <= done /\ done < total_items
    /\ done' = done + 1
    /\ events' = Append(events, item_percent(done + 1, total_items))
    /\ apc' = "run"
    /\ aout' = copy_failed((adds \o replaces)[done - Len(deletes) + 1])
    /\ UNCHANGED <<diffVars, live, live0, staging, backup_before_apply, swallowed,
                   aresult, sessVars, backupVars, fetchVars>>

\* Phase 2 raising (lines 864-865, 873-874): the entry cannot be written, or
\* the copy fails for a reason outside the trees (disk full, file locked)
ApplyCopyFail ==
    /\ InLoops
    /\ Len(deletes) <= done /\ done < total_items
    /\ apc' = "failed"
    /\ aresult' = "error"
    /\ aout' = copy_failed((adds \o replaces)[done - Len(deletes) + 1])
    /\ UNCHANGED <<diffVars, live, live0, staging, backup_before_apply, done,
                   swallowed, events, sessVars, backupVars, fetchVars>>

\* return str(backup_path) if backup_path else "", lines 798, 818 and 872:
\* backup_path is the zip's path once Phase 0 has run, None otherwise
do_apply_return_always(backup_ran) == "zip"
do_apply_return(backup_ran) == IF backup_ran THEN "zip" ELSE ""

\* lines 871-872
ApplyFinish ==
    /\ InLoops
    /\ done = total_items
    /\ events' = Append(events, Event(Frac(100, 1), "apply"))
    /\ apc' = "done"
    /\ aresult' = "ok"
    /\ aout' = [NoResult EXCEPT !.path = do_apply_return(backup_before_apply)]
    /\ UNCHANGED <<diffVars, live, live0, staging, backup_before_apply, done,
                   swallowed, sessVars, backupVars, fetchVars>>

\* repo_temp.cleanup() of goto_idle (lines 484-487) while _do_apply is in its
\* loops: the staging directory is removed with everything in it
StagingCleanup ==
    /\ InLoops
    /\ staging # EmptyTree
    /\ staging' = EmptyTree
    /\ UNCHANGED <<diffVars, live, live0, backup_before_apply, done, swallowed,
                   events, apc, aresult, aout, sessVars, backupVars, fetchVars>>

NextApply ==
    \/ ScanTrees
    \/ StagingCleanup
    \/ ApplyBackup
    \/ ApplyBackupFail
    \/ ApplyDelete
    \/ ApplyCopy
    \/ ApplyCopyFail
    \/ ApplyFinish

SpecApply == InitApply /\ [][NextApply]_vars

---------------------------------------------------------------------------
(* Claims about apply (checked under SpecApply).                           *)

\* the entries of the scanned reference that the live-side filter does not
\* exclude
RefKept ==
    SelectSeq(repo_map,
              LAMBDA e : /\ ~skip_dir(Parent(e.rel_path), TRUE)
                         /\ IF e.is_dir
                            THEN ~dir_filtered(Basename(e.rel_path), TRUE)
                            ELSE ~file_filtered(Basename(e.rel_path), TRUE))

\* C6 (the claim as stated): after an apply that returned successfully, every
\* file entry of the reference that the live-side filter does not exclude is a
\* file of the live tree with the reference's hash.
C6_ApplyConverges ==
    aresult = "ok" =>
        \A i \in DOMAIN RefKept :
            LET e == RefKept[i] IN
            ~e.is_dir =>
                /\ IsFile(live, e.rel_path)
                /\ hash_file(live[e.rel_path]) = e.hash

\* C7 (the claim as stated): after a successful apply in which no deletion
\* failed, no path of deletions exists in the live tree, every path of
\* additions exists in it, and the filtered scan of the live tree has the
\* reference's keys.
C7_ApplyReachesReference ==
    (aresult = "ok" /\ swallowed = {}) =>
        /\ \A i \in DOMAIN deletes : ~Exists(live, deletes[i].rel_path)
        /\ \A i \in DOMAIN adds : Exists(live, adds[i].rel_path)
        /\ Keys(scan_dir_with_hashes(live, TRUE)) = Keys(RefKept)

\* C8 (the claim as stated): within one operation no progress event reports a
\* lower percent than an earlier event with the same phase tag.
C8_PercentNonDecreasing ==
    \A i, j \in DOMAIN events :
        (i < j /\ events[i].tag = events[j].tag) =>
            Leq(events[i].percent, events[j].percent)

\* Phase 0 is behind: no backup was asked for, or all its events are out
PhaseZeroDone ==
    ~backup_before_apply \/ Len(events) >= Len(backup_events(live0, "ok"))

\* C11: a failure while removing a deletion entry is swallowed: the entry is
\* counted as processed, an apply that ends in an error after Phase 0 has
\* been through every deletion entry (the error comes from Phase 2), and an
\* apply that returns has processed every deletion, addition and
\* replacement entry, however many removals failed.
C11_DeletionFailureSwallowed ==
    /\ \A p \in swallowed : \E i \in 1..done : deletes[i].rel_path = p
    /\ (aresult = "error" /\ PhaseZeroDone) => done >= Len(deletes)
    /\ aresult = "ok" =>
           /\ done = total_items
           /\ Len(events) >= total_items + 1

\* the first of two removals failed, the second was carried out, an addition
\* or replacement was copied and the apply returned
C11_Witness ==
    /\ aresult = "ok"
    /\ Len(deletes) = 2
    /\ deletes[1].rel_path \in swallowed
    /\ deletes[2].rel_path \notin swallowed
    /\ Len(adds) + Len(replaces) >= 1
    /\ done = total_items

\* the number of events Phase 0 emits when it completes
PhaseZeroEvents ==
    IF backup_before_apply THEN Len(backup_events(live0, "ok")) ELSE 0

\* C12: once an addition or replacement entry has failed, the apply has
\* ended with an error that names the source and the destination of the
\* entry at which processing stopped; no later entry was processed (one
\* progress event per entry before it, none after) and no 100% event was
\* emitted.
C12_CopyFailureFatal ==
    aout.what = "Copy failed" =>
        /\ apc = "failed" /\ aresult = "error"
        /\ Len(deletes) <= done /\ done < total_items
        /\ LET meta == (adds \o replaces)[done - Len(deletes) + 1] IN
              /\ aout.src = [root |-> "repo_dir", rel_path |-> meta.rel_path]
              /\ aout.dst = [root |-> "mods_path", rel_path |-> meta.rel_path]
        /\ Len(events) = PhaseZeroEvents + done
        /\ \A i \in DOMAIN events : ~Leq(Frac(100, 1), events[i].percent)

\* an apply that took a backup failed on an entry with a later entry left
C12_Witness ==
    /\ aout.what = "Copy failed"
    /\ total_items - done >= 2
    /\ backup_before_apply

\* C26: once the backup phase of an apply has failed, the apply has ended
\* with an error before its loops: no entry has been processed and the live
\* tree is the tree that was scanned.
C26_BackupFailureLeavesTree ==
    aout.what = "backup" =>
        /\ apc = "failed" /\ aresult = "error"
        /\ done = 0
        /\ swallowed = {}
        /\ live = live0

\* the backup failed in an apply that had a deletion and a copy to make
C26_Witness ==
    /\ aout.what = "backup"
    /\ Len(deletes) > 0
    /\ Len(adds) + Len(replaces) > 0

\* C28 (the claim as stated): an apply returns success only if every file
\* entry of additions and replacements was copied from staging to its
\* destination: the destination is then a file with the hash the scan of the
\* staging tree recorded for the entry.
C28_SuccessMeansCopied ==
    aresult = "ok" =>
        \A i \in DOMAIN (adds \o replaces) :
            LET meta == (adds \o replaces)[i] IN
            ~meta.is_dir =>
                /\ IsFile(live, meta.rel_path)
                /\ hash_file(live[meta.rel_path]) = Lookup(repo_map, meta.rel_path).hash

\* the paths of the live tree that the live-side filter kept out of the scan
Filtered == {p \in Paths : Exists(live0, p) /\ p \notin Keys(mod_map)}

\* C29 (the claim as stated): apply never removes a live-tree path that the
\* live-side filter excluded from the scan: no such path is in deletions and
\* every such path still exists, whatever entries have been removed.
C29_FilteredPathsKept ==
    apc # "scan" =>
        \A p \in Filtered :
            /\ \A i \in DOMAIN deletes : deletes[i].rel_path # p
            /\ Exists(live, p)

\* C30 (the claim as stated): apply does not remove, overwrite or modify a
\* live-tree path that the diff of the two scans classified as ignore: at
\* every point of the apply, and so after it has succeeded or failed, every
\* path of the ignores bucket has the type and content it had when the live
\* tree was scanned.
C30_IgnoresUntouched ==
    apc # "scan" =>
        \A i \in DOMAIN ignores :
            live[ignores[i].rel_path] = live0[ignores[i].rel_path]

\* p lies within [lo, hi]
Within(p, lo, hi) == Leq(Frac(lo, 1), p) /\ Leq(p, Frac(hi, 1))

\* C16 (the claim as stated): in an apply that takes a backup first, every
\* event of the backup phase has its percent within [0, 20], every event of
\* the deletion and copy loops within [20, 90], and the last event of a
\* successful apply is 100.
C16_ProgressWindows ==
    backup_before_apply =>
        /\ \A i \in DOMAIN events :
              IF i <= PhaseZeroEvents
              THEN Within(events[i].percent, 0, 20)
              ELSE IF i <= PhaseZeroEvents + total_items
                   THEN Within(events[i].percent, 20, 90)
                   ELSE TRUE
        /\ aresult = "ok" =>
              /\ Leq(Frac(100, 1), events[Len(events)].percent)
              /\ Leq(events[Len(events)].percent, Frac(100, 1))

---------------------------------------------------------------------------
(* SpecBackup: _do_backup on a tree, then a full extraction of its zip.    *)

Range(f) == {f[i] : i \in DOMAIN f}

\* copy_dir_all, lines 42-53: every directory os.walk visits is created under
\* dst and every file it lists is copied with shutil.copy2
copy_dir_all(t) ==
    LET roots == Range(os_walk(t, <<>>)) IN
    [p \in DOMAIN t |->
        IF p \in roots THEN "dir"
        ELSE IF Parent(p) \in roots /\ Basename(p) \in Range(ListFiles(t, Parent(p)))
             THEN content(t[p])
             ELSE "none"]

\* create_zip_backup, lines 72-78: one zipf.write per file of the walk, named
\* by its path relative to src_dir; directories are never written
zip_entries_of(t, base) ==
    MapSeq(ListFiles(t, base),
           LAMBDA f : [filename |-> base \o <<f>>, data |-> content(t[base \o <<f>>])])
create_zip_backup(t) ==
    ConcatAll(MapSeq(os_walk(t, <<>>), LAMBDA b : zip_entries_of(t, b)))

\* ZipFile.extract of every entry (as in lines 171-175): the entry's file is
\* written and the directories of its path are created
extractall(entries) ==
    [p \in Paths |->
        IF \E i \in DOMAIN entries : entries[i].filename = p
        THEN entries[CHOOSE i \in DOMAIN entries : entries[i].filename = p].data
        ELSE IF \E i \in DOMAIN entries : IsPrefix(p, entries[i].filename)
             THEN "dir"
             ELSE "none"]

Callback(fn, p) == [fn |-> fn, percent |-> p]

\* _do_backup's copy_progress and zip_progress (lines 778-786)
backup_copy_progress(p) == Event(Times(p, 7, 10), "backup")
backup_zip_progress(p)  == Event(Plus(70, Times(p, 3, 10)), "backup")

InitBackup ==
    /\ live \in Trees
    /\ live0 = live
    /\ staging = EmptyTree
    /\ backup_before_apply = FALSE
    /\ apc = "idle" /\ done = 0 /\ swallowed = {} /\ events = <<>> /\ aresult = ""
    /\ aout = NoResult
    /\ backup_path = EmptyTree /\ zip_file = NoZip /\ extracted = EmptyTree
    /\ callbacks = <<>> /\ bpc = "start"
    /\ DiffIdle
    /\ SessIdle
    /\ FetchIdle

\* lines 774-781: the opening event and copy_dir_all(mods_path, backup_path)
BackupCopy ==
    /\ bpc = "start"
    /\ LET ps == copy_dir_all_percents(FileCount(live)) IN
          /\ callbacks' = callbacks \o MapSeq(ps, LAMBDA q : Callback("copy_dir_all", q))
          /\ events' = events \o <<Event(Frac(0, 1), "backup")>>
                               \o MapSeq(ps, backup_copy_progress)
    /\ backup_path' = copy_dir_all(live)
    /\ bpc' = "copied"
    /\ UNCHANGED <<zip_file, extracted>>
    /\ UNCHANGED <<live, live0, staging, backup_before_apply, apc, done, swallowed,
                   aresult, aout>>
    /\ UNCHANGED <<diffVars, sessVars, fetchVars>>

\* lines 783-788: create_zip_backup(backup_path, zip_path)
BackupZip ==
    /\ bpc = "copied"
    /\ LET ps == create_zip_backup_percents(FileCount(backup_path)) IN
          /\ callbacks' = callbacks \o MapSeq(ps, LAMBDA q : Callback("create_zip_backup", q))
          /\ events' = events \o MapSeq(ps, backup_zip_progress)
    /\ zip_file' = [exists |-> TRUE, entries |-> create_zip_backup(backup_path)]
    /\ bpc' = "zipped"
    /\ UNCHANGED <<backup_path, extracted>>
    /\ UNCHANGED <<live, live0, staging, backup_before_apply, apc, done, swallowed,
                   aresult, aout>>
    /\ UNCHANGED <<diffVars, sessVars, fetchVars>>

\* lines 790-793: the ephemeral copy is removed, the closing event is sent
\* and zip_path is returned
BackupRmtree ==
    /\ bpc = "zipped"
    /\ backup_path' = EmptyTree
    /\ events' = Append(events, Event(Frac(100, 1), "backup"))
    /\ bpc' = "done"
    /\ UNCHANGED <<zip_file, extracted, callbacks>>
    /\ UNCHANGED <<live, live0, staging, backup_before_apply, apc, done, swallowed,
                   aresult, aout>>
    /\ UNCHANGED <<diffVars, sessVars, fetchVars>>

\* lines 794-795: copy_dir_all, create_zip_backup or shutil.rmtree raises
BackupFail ==
    /\ bpc \in {"start", "copied", "zipped"}
    /\ bpc' = "failed"
    /\ UNCHANGED <<backup_path, zip_file, extracted, callbacks>>
    /\ UNCHANGED <<diffVars, applyVars, sessVars, fetchVars>>

\* the zip _do_backup returned is extracted in full into an empty directory
ExtractZip ==
    /\ bpc = "done"
    /\ extracted' = extractall(zip_file.entries)
    /\ bpc' = "extracted"
    /\ UNCHANGED <<backup_path, zip_file, callbacks>>
    /\ UNCHANGED <<diffVars, applyVars, sessVars, fetchVars>>

NextBackup ==
    \/ BackupCopy
    \/ BackupZip
    \/ BackupRmtree
    \/ BackupFail
    \/ ExtractZip

SpecBackup == InitBackup /\ [][NextBackup]_vars

---------------------------------------------------------------------------
(* Claims about the backup (checked under SpecBackup).                     *)

\* C14 (the claim as stated): the scan of the tree extracted from the backup's
\* zip holds the same entries as the scan of the tree that was backed up,
\* directory entries included, with and without the garbage filter.
C14_ZipRoundTrip ==
    bpc = "extracted" =>
        \A filter_garbage \in BOOLEAN :
            Range(scan_dir_with_hashes(extracted, filter_garbage))
                = Range(scan_dir_with_hashes(live, filter_garbage))

\* C15 (the claim as stated): a backup of a tree without files makes the copy
\* and compression routines call progress_callback not at all.
C15_NoUpdatesOnEmptyTree ==
    (FileCount(live) = 0 /\ bpc \in {"zipped", "done", "extracted"}) =>
        callbacks = <<>>

\* C15 (amended): no percent is computed by a division by zero, and on a
\* tree without files the routines make no per-file call: copy_dir_all makes
\* its closing call (100), create_zip_backup its opening (0) and closing (100).
C15_OnlyFixedUpdatesOnEmptyTree ==
    /\ \A i \in DOMAIN callbacks : callbacks[i].percent.d # 0
    /\ (FileCount(live) = 0 /\ bpc \in {"zipped", "done", "extracted"}) =>
          callbacks = << Callback("copy_dir_all", Frac(100, 1)),
                         Callback("create_zip_backup", Frac(0, 1)),
                         Callback("create_zip_backup", Frac(100, 1)) >>

\* the backup of a tree that holds a directory and no file has completed
C15_Witness ==
    /\ FileCount(live) = 0
    /\ IsDir(live, <<NameX>>)
    /\ bpc = "done"

---------------------------------------------------------------------------
(* SpecFetch: download_and_extract_zip, statement by statement.            *)

\* the statuses a response may carry, two of each class that can arrive
Statuses == {101, 200, 204, 304, 404, 503}

\* the sizes of the chunks iter_content may yield; an empty chunk is skipped
ChunkSizes == {0, 64, 128}

\* os.path.getsize(tmp_zip) < 128, line 169
MinZipSize == 128

EntryNames == {"a", "b"}

SeqsUpTo(S, n) == UNION {[1..k -> S] : k \in 0..n}

RECURSIVE Sum(_)
Sum(sizes) == IF sizes = <<>> THEN 0 ELSE Head(sizes) + Sum(Tail(sizes))

\* what requests.get may answer: content_length is the header's value, 0 when
\* the header is absent
Responses ==
    {[status |-> st, content_length |-> IF advertised THEN Sum(ch) ELSE 0,
      chunks |-> ch, bad_zip |-> bad, entries |-> IF bad THEN <<>> ELSE en] :
        st \in Statuses, advertised \in BOOLEAN, ch \in SeqsUpTo(ChunkSizes, MaxChunks),
        bad \in BOOLEAN, en \in SeqsUpTo(EntryNames, MaxZipEntries)}

\* Response.ok of requests, line 157: raise_for_status() raises for the
\* statuses 400..599 and for no other
r_ok(status) == ~(400 <= status /\ status < 600)

Raise(what) == [NoException EXCEPT !.what = what]

InitFetch ==
    /\ response = NoResponse /\ written = 0
    /\ tmp_zip = [exists |-> FALSE, size |-> 0]
    /\ extract_to = <<>> /\ pending = NoException /\ removal = ""
    /\ foutcome = NoOutcome
    /\ fpc = "get"
    /\ DiffIdle /\ ApplyIdle /\ SessIdle /\ BackupIdle

\* lines 156-159: the request is sent; it raises, or a response arrives
FetchGet ==
    /\ fpc = "get"
    /\ \/ /\ pending' = Raise("requests.get")
          /\ fpc' = "finally"
          /\ UNCHANGED response
       \/ \E r \in Responses :
            /\ response' = r
            /\ IF r_ok(r.status)
               THEN /\ fpc' = "open"
                    /\ UNCHANGED pending
               ELSE /\ pending' = [Raise("HTTP error") EXCEPT !.status = r.status]
                    /\ fpc' = "finally"
    /\ UNCHANGED <<written, tmp_zip, extract_to, removal, foutcome>>
    /\ UNCHANGED <<diffVars, applyVars, sessVars, backupVars>>

\* line 161: open(tmp_zip, "wb") creates the file, or raises
FetchOpen ==
    /\ fpc = "open"
    /\ \/ /\ tmp_zip' = [exists |-> TRUE, size |-> 0]
          /\ fpc' = "download"
          /\ UNCHANGED pending
       \/ /\ pending' = Raise("open")
          /\ fpc' = "finally"
          /\ UNCHANGED tmp_zip
    /\ UNCHANGED <<response, written, extract_to, removal, foutcome>>
    /\ UNCHANGED <<diffVars, applyVars, sessVars, backupVars>>

\* written / total without the factor 100
download_percent_fraction(w, total) == Event(Frac(w, total), "download")

\* percent = written / total * 100, line 167
download_percent(w, total) == Event(Frac(w * 100, total), "download")

\* lines 162-168: one pass of "for chunk in r.iter_content(...)"
FetchChunk ==
    /\ fpc = "download"
    /\ response.chunks # <<>>
    /\ LET chunk == Head(response.chunks)
           total == response.content_length
       IN  IF chunk > 0
           THEN /\ tmp_zip' = [tmp_zip EXCEPT !.size = @ + chunk]
                /\ written' = written + chunk
                /\ events' = IF total > 0
                             THEN Append(events, download_percent(written + chunk, total))
                             ELSE events
           ELSE UNCHANGED <<tmp_zip, written, events>>
    /\ response' = [response EXCEPT !.chunks = Tail(@)]
    /\ UNCHANGED <<extract_to, pending, removal, foutcome, fpc>>
    /\ UNCHANGED <<live, live0, staging, backup_before_apply, apc, done, swallowed,
                   aresult, aout>>
    /\ UNCHANGED <<diffVars, sessVars, backupVars>>

\* the connection breaks while the body is read: iter_content raises
FetchStreamFail ==
    /\ fpc = "download"
    /\ pending' = Raise("iter_content")
    /\ fpc' = "finally"
    /\ UNCHANGED <<response, written, tmp_zip, extract_to, removal, foutcome>>
    /\ UNCHANGED <<diffVars, applyVars, sessVars, backupVars>>

\* something else removes the file from the temporary directory meanwhile
FetchTmpVanishes ==
    /\ fpc = "download"
    /\ response.chunks = <<>>
    /\ tmp_zip.exists
    /\ tmp_zip' = [exists |-> FALSE, size |-> 0]
    /\ UNCHANGED <<response, written, extract_to, pending, removal, foutcome, fpc>>
    /\ UNCHANGED <<diffVars, applyVars, sessVars, backupVars>>

\* lines 171-172: the archive is opened and its entries are listed
open_zip ==
    IF response.bad_zip
    THEN /\ pending' = Raise("BadZipFile")
         /\ fpc' = "finally"
    ELSE /\ fpc' = IF response.entries = <<>> THEN "finally" ELSE "extract"
         /\ UNCHANGED pending

\* a download that goes on to the archive whatever its size
FetchCheck_unchecked ==
    /\ fpc = "download"
    /\ response.chunks = <<>>
    /\ open_zip
    /\ UNCHANGED <<response, written, tmp_zip, extract_to, removal, foutcome>>
    /\ UNCHANGED <<diffVars, applyVars, sessVars, backupVars>>

\* lines 169-172, after the download loop
FetchCheck ==
    /\ fpc = "download"
    /\ response.chunks = <<>>
    /\ IF ~tmp_zip.exists \/ tmp_zip.size < MinZipSize
       THEN /\ pending' = Raise("Downloaded zip is missing or suspiciously small")
            /\ fpc' = "finally"
       ELSE open_zip
    /\ UNCHANGED <<response, written, tmp_zip, extract_to, removal, foutcome>>
    /\ UNCHANGED <<diffVars, applyVars, sessVars, backupVars>>

\* percent = ((idx+1) / nfiles) * 100, line 179
extract_percent(n, nfiles) == Event(Frac(n * 100, nfiles), "extract")

\* lines 173-180: one pass of the extraction loop
FetchExtract ==
    /\ fpc = "extract"
    /\ LET idx == Len(extract_to)
           nfiles == Len(response.entries)
       IN  /\ extract_to' = Append(extract_to, response.entries[idx + 1])
           /\ events' = Append(events, extract_percent(idx + 1, nfiles))
           /\ fpc' = IF idx + 1 = nfiles THEN "finally" ELSE "extract"
    /\ UNCHANGED <<response, written, tmp_zip, pending, removal, foutcome>>
    /\ UNCHANGED <<live, live0, staging, backup_before_apply, apc, done, swallowed,
                   aresult, aout>>
    /\ UNCHANGED <<diffVars, sessVars, backupVars>>

\* an extraction loop without the try/except that names the entry
FetchExtractFail_unnamed ==
    /\ fpc = "extract"
    /\ pending' = Raise("Failed extracting")
    /\ fpc' = "finally"
    /\ UNCHANGED <<response, written, tmp_zip, extract_to, removal, foutcome>>
    /\ UNCHANGED <<diffVars, applyVars, sessVars, backupVars>>

\* lines 176-177: zip_ref.extract raises
FetchExtractFail ==
    /\ fpc = "extract"
    /\ pending' = [Raise("Failed extracting")
                   EXCEPT !.filename = response.entries[Len(extract_to) + 1]]
    /\ fpc' = "finally"
    /\ UNCHANGED <<response, written, tmp_zip, extract_to, removal, foutcome>>
    /\ UNCHANGED <<diffVars, applyVars, sessVars, backupVars>>

\* a finally block whose os.remove is not wrapped in try/except
FetchFinally_unswallowed ==
    /\ fpc = "finally"
    /\ \E remove_fails \in BOOLEAN :
          /\ remove_fails => tmp_zip.exists
          /\ removal' = IF ~tmp_zip.exists THEN "nothing to remove"
                        ELSE IF remove_fails THEN "failed" ELSE "removed"
          /\ tmp_zip' = IF remove_fails THEN tmp_zip ELSE [exists |-> FALSE, size |-> 0]
          /\ IF remove_fails
             THEN /\ foutcome' = [kind |-> "raised", err |-> Raise("os.remove")]
                  /\ fpc' = "raised"
             ELSE IF pending # NoException
             THEN /\ foutcome' = [kind |-> "raised", err |-> pending]
                  /\ fpc' = "raised"
             ELSE /\ fpc' = "after"
                  /\ UNCHANGED foutcome
    /\ UNCHANGED <<response, written, extract_to, pending>>
    /\ UNCHANGED <<diffVars, applyVars, sessVars, backupVars>>

\* lines 181-188: the exception, if any, is wrapped; tmp_zip is removed if it
\* exists and a failure of os.remove is swallowed; the exception goes on
FetchFinally ==
    /\ fpc = "finally"
    /\ \E remove_fails \in BOOLEAN :
          /\ remove_fails => tmp_zip.exists
          /\ removal' = IF ~tmp_zip.exists THEN "nothing to remove"
                        ELSE IF remove_fails THEN "failed" ELSE "removed"
          /\ tmp_zip' = IF remove_fails THEN tmp_zip ELSE [exists |-> FALSE, size |-> 0]
    /\ IF pending # NoException
       THEN /\ foutcome' = [kind |-> "raised", err |-> pending]
            /\ fpc' = "raised"
       ELSE /\ fpc' = "after"
            /\ UNCHANGED foutcome
    /\ UNCHANGED <<response, written, extract_to, pending>>
    /\ UNCHANGED <<diffVars, applyVars, sessVars, backupVars>>

\* lines 189-190: the closing event, then the function returns
FetchFinish ==
    /\ fpc = "after"
    /\ events' = Append(events, Event(Frac(100, 1), "extract"))
    /\ foutcome' = [kind |-> "returned", err |-> NoException]
    /\ fpc' = "returned"
    /\ UNCHANGED <<response, written, tmp_zip, extract_to, pending, removal>>
    /\ UNCHANGED <<live, live0, staging, backup_before_apply, apc, done, swallowed,
                   aresult, aout>>
    /\ UNCHANGED <<diffVars, sessVars, backupVars>>

NextFetch ==
    \/ FetchGet
    \/ FetchOpen
    \/ FetchChunk
    \/ FetchStreamFail
    \/ FetchTmpVanishes
    \/ FetchCheck
    \/ FetchExtract
    \/ FetchExtractFail
    \/ FetchFinally
    \/ FetchFinish

SpecFetch == InitFetch /\ [][NextFetch]_vars

---------------------------------------------------------------------------
(* Claims about the fetch (checked under SpecFetch).                       *)

FetchEnded == fpc \in {"returned", "raised"}

ExtractEvents == {i \in DOMAIN events : events[i].tag = "extract"}

\* the download-tagged events, in the order they were emitted
DownloadEvents == SelectSeq(events, LAMBDA e : e.tag = "download")

\* C23: when no total is advertised no download-tagged event is emitted;
\* when a total T > 0 is advertised (the chunks sum to T) the latest
\* download-tagged event is written / T * 100, the events never decrease
\* and never exceed 100, and once the whole body is written the last one
\* is 100.
C23_DownloadPercent ==
    LET T == response.content_length
        n == Len(DownloadEvents)
    IN  /\ T = 0 => n = 0
        /\ (T > 0 /\ written > 0) =>
              /\ n > 0
              /\ DownloadEvents[n].percent = Frac(written * 100, T)
        /\ \A i \in 1..n : Leq(DownloadEvents[i].percent, Frac(100, 1))
        /\ \A i, j \in 1..n :
              i < j => Leq(DownloadEvents[i].percent, DownloadEvents[j].percent)
        /\ (T > 0 /\ written = T) => Leq(Frac(100, 1), DownloadEvents[n].percent)

\* a body advertised as 192 bytes has arrived in two chunks
C23_Witness ==
    /\ response.content_length = 192
    /\ written = 192
    /\ Len(DownloadEvents) = 2

\* C24: the entries extracted so far are the first entries of the archive,
\* in its order; once the extraction of an entry has failed, the error names
\* the entry that follows the extracted ones, the function is on its way
\* out with that error, and no extract-tagged event beyond one per extracted
\* entry (so no closing 'Finished.' event) has been emitted.
C24_ExtractFailureNamesEntry ==
    /\ Len(extract_to) <= Len(response.entries)
    /\ \A i \in DOMAIN extract_to : extract_to[i] = response.entries[i]
    /\ pending.what = "Failed extracting" =>
          /\ Len(extract_to) < Len(response.entries)
          /\ pending.filename = response.entries[Len(extract_to) + 1]
          /\ fpc \in {"finally", "raised"}
          /\ fpc = "raised" => foutcome = [kind |-> "raised", err |-> pending]
          /\ Cardinality(ExtractEvents) = Len(extract_to)

\* the second of two entries failed after the first had been extracted
C24_Witness ==
    /\ fpc = "raised"
    /\ foutcome.err.what = "Failed extracting"
    /\ Len(extract_to) = 1
    /\ Len(response.entries) = 2

\* C17: once download_and_extract_zip has returned or raised, the finally
\* block has dealt with the temporary archive (it tried to remove it, or
\* found none), a removal that succeeded left no archive, and the outcome is
\* the one the try block produced: it raised exactly the pending exception,
\* or returned if there was none, whether or not the removal failed.
C17_TmpZipCleanup ==
    FetchEnded =>
        /\ removal \in {"removed", "failed", "nothing to remove"}
        /\ removal = "removed" => ~tmp_zip.exists
        /\ removal = "failed" <=> tmp_zip.exists
        /\ foutcome.kind = "raised" <=> pending # NoException
        /\ foutcome.kind = "returned" <=> pending = NoException
        /\ foutcome.err = pending

\* the function returned although the removal of the archive failed
C17_Witness ==
    /\ fpc = "returned"
    /\ removal = "failed"
    /\ extract_to # <<>>

\* C18 (the claim as stated): for a response whose status is not 2xx nothing
\* is written to the temporary archive, nothing is extracted, and the
\* function ends with the error that carries the status code.
C18_OnlySuccessStatuses ==
    (response.status # 0 /\ ~(200 <= response.status /\ response.status < 300)) =>
        /\ written = 0
        /\ ~tmp_zip.exists
        /\ extract_to = <<>>
        /\ FetchEnded =>
              /\ foutcome.kind = "raised"
              /\ foutcome.err.what = "HTTP error"
              /\ foutcome.err.status = response.status

\* C19: when the download loop has completed with fewer than 128 bytes
\* written, or the size check has rejected the file (absent or too small),
\* no entry is extracted and no extract-tagged progress event is emitted.
C19_SmallDownloadRejected ==
    (\/ pending.what = "Downloaded zip is missing or suspiciously small"
     \/ (fpc \notin {"get", "open", "download"} /\ response.status # 0
            /\ written < MinZipSize))
        => /\ extract_to = <<>>
           /\ ExtractEvents = {}

\* a download of 64 bytes whose body lists entries was rejected
C19_Witness ==
    /\ fpc = "raised"
    /\ foutcome.err.what = "Downloaded zip is missing or suspiciously small"
    /\ written > 0 /\ written < MinZipSize
    /\ ~response.bad_zip /\ response.entries # <<>>

---------------------------------------------------------------------------
(* SpecScan: scan_dir_with_hashes over trees whose names meet the filter.  *)

\* the tree that holds one entry at path ns and the directories above it
chain(ns, kind) ==
    [p \in {SubSeq(ns, 1, j) : j \in 1..Len(ns)} |->
        IF Len(p) = Len(ns) THEN kind ELSE "dir"]

ScanInputs ==
    {chain(ns, kind) :
        ns \in UNION {[1..d -> ScanNames] : d \in 1..MaxScanDepth},
        kind \in {"dir", "c1"}}

InitScan ==
    /\ live \in ScanInputs
    /\ live0 = live
    /\ staging = EmptyTree
    /\ backup_before_apply = FALSE
    /\ apc = "idle" /\ done = 0 /\ swallowed = {} /\ events = <<>> /\ aresult = ""
    /\ aout = NoResult
    /\ DiffIdle /\ SessIdle /\ BackupIdle /\ FetchIdle

\* scan_dir_with_hashes(root, True) and scan_dir_with_hashes(root, False)
ScanDir ==
    /\ dpc = "start"
    /\ mod_map' = scan_dir_with_hashes(live, TRUE)
    /\ repo_map' = scan_dir_with_hashes(live, FALSE)
    /\ dpc' = "scanned"
    /\ UNCHANGED <<deletes, adds, replaces, ignores>>
    /\ UNCHANGED <<applyVars, sessVars, backupVars, fetchVars>>

NextScan == ScanDir

SpecScan == InitScan /\ [][NextScan]_vars

\* C20 (the claim as stated): the filtered scan holds no key that names or
\* lies beneath a .git directory at any depth, no key that names a
\* __pycache__ directory, no file key ending in .tmp or .log and no
\* .gitignore file key.
C20_FilteredScanExcludes ==
    dpc = "scanned" =>
        \A i \in DOMAIN mod_map :
            LET e == mod_map[i]
                name == Basename(e.rel_path)
            IN  /\ \A j \in 1..Len(e.rel_path) :
                      ~(e.rel_path[j] = NameGit /\ (j < Len(e.rel_path) \/ e.is_dir))
                /\ e.is_dir => name # NamePycache
                /\ ~e.is_dir => /\ ~endswith(lower(name), ".tmp")
                                /\ ~endswith(lower(name), ".log")
                                /\ name # NameGitignore

---------------------------------------------------------------------------
(* Spec: the session.  The UI thread runs one handler at a time; every     *)
(* WorkerThread runs its function beside it and hands its result to the    *)
(* UI thread through the queued result signal.                             *)

\* the trees a scan of the session may meet
SessTrees == {t \in Trees : \A p \in Paths : t[p] # "none" => p = <<NameX>>}

\* what _scan_all returns for a live tree lt and a staging tree st (lines 751-768)
scan_all(lt, st) ==
    LET mm == scan_dir_with_hashes(lt, TRUE)
        rm == scan_dir_with_hashes(st, FALSE)
    IN  [deletes |-> DiffDeletes(mm, rm), adds |-> DiffAdds(mm, rm),
         replaces |-> DiffReplaces(mm, rm), ignores |-> DiffIgnores(mm, rm),
         path |-> ""]

ScanOutcomes == {scan_all(lt, st) : lt \in SessTrees, st \in SessTrees}

\* the payload of result('error', (str(e), tb)), lines 149-151: the text is
\* the one the function wraps its exception in (lines 770, 795, 874)
NoErr == [msg |-> "", tb |-> ""]
raised(fn) ==
    [msg |-> CASE fn = "scan"   -> "Repository fetch/scanning failed"
               [] fn = "backup" -> "Backup failed"
               [] OTHER         -> "Failed applying changes",
     tb |-> "traceback"]

NoOut == [deletes |-> <<>>, adds |-> <<>>, replaces |-> <<>>, ignores |-> <<>>,
          path |-> ""]

\* WorkerThread(fn, *args): left counts the units of work fn still has to do
\* (the archive of a scan, the tree of a backup, the backup and the entries of
\* an apply), repo is the TemporaryDirectory the function works on
WorkerThread(fn, left, repo) ==
    [fn |-> fn, pc |-> "running", left |-> left, repo |-> repo,
     backup_before_apply |-> FALSE,
     typ |-> "", out |-> NoOut, err |-> NoErr, delivered |-> FALSE]

ThreadIds == DOMAIN threads

\* QThread.isRunning(): true until run() has returned
isRunning(w) == threads[w].pc # "finished"

\* the thread is inside its function: it has neither returned nor raised
InFunction(w) == threads[w].pc = "running"

\* _set_stage: the stage is set (the progress fields it resets are not modelled)
set_stage(st, stage) == [st EXCEPT !.stage = stage]

\* _show_error, lines 478-481
show_error(st, msg, details) ==
    set_stage([st EXCEPT !.error = msg, !.err_details = details], "error")

\* run_thread(self._scan_all), lines 617-626, called by reload_ui when the
\* stage is "scanning": nothing is started while self.worker is running.
\* _scan_all begins by creating its TemporaryDirectory (line 747).
run_thread_scan ==
    IF worker # 0 /\ isRunning(worker)
    THEN UNCHANGED <<worker, threads, temps>>
    ELSE /\ Len(threads) < MaxThreads
         /\ threads' = Append(threads, WorkerThread("scan", 1, Len(temps) + 1))
         /\ temps' = Append(temps, "live")
         /\ worker' = Len(threads) + 1

UiFree == progress_dialog # "open" /\ state.stage # "closed"

\* try_start, lines 511-520 (the Start button of the idle page)
TryStart ==
    /\ state.stage = "idle" /\ UiFree
    /\ \E found \in BOOLEAN :
          IF found
          THEN /\ state' = set_stage([state EXCEPT !.mods_path = TRUE], "scanning")
               /\ run_thread_scan
          ELSE /\ state' = [state EXCEPT !.stage = "needpath"]
               /\ UNCHANGED <<worker, threads, temps>>
    /\ UNCHANGED <<progress_dialog, diffVars, applyVars, backupVars, fetchVars>>

\* pick_folder, lines 522-529, with a folder chosen
PickFolder ==
    /\ state.stage = "needpath" /\ UiFree
    /\ state' = set_stage([state EXCEPT !.mods_path = TRUE], "scanning")
    /\ run_thread_scan
    /\ UNCHANGED <<progress_dialog, diffVars, applyVars, backupVars, fetchVars>>

\* start_backup, lines 542-556 (Backup Only): a thread is created and started
\* whatever self.worker is doing, then the modal dialog is shown
StartBackup ==
    /\ state.stage = "summary" /\ UiFree
    /\ Len(threads) < MaxThreads
    /\ threads' = Append(threads, WorkerThread("backup", 1, 0))
    /\ worker' = Len(threads) + 1
    /\ progress_dialog' = "open"
    /\ UNCHANGED <<state, temps, diffVars, applyVars, backupVars, fetchVars>>

\* start_apply, lines 564-609 (Apply Changes!), both questions answered so
\* that the apply goes ahead
StartApply ==
    /\ state.stage = "summary" /\ UiFree
    /\ Len(threads) < MaxThreads
    /\ \E backup_ret \in BOOLEAN :
          /\ state' = [state EXCEPT !.backup_before_apply = backup_ret]
          /\ threads' = Append(threads,
                 [WorkerThread("apply",
                               (IF backup_ret THEN 1 ELSE 0) + Len(state.deletes)
                                 + Len(state.adds) + Len(state.replaces),
                               state.repo_dir)
                  EXCEPT !.backup_before_apply = backup_ret])
    /\ worker' = Len(threads) + 1
    /\ progress_dialog' = "open"
    /\ UNCHANGED <<temps, diffVars, applyVars, backupVars, fetchVars>>

\* the user closes the progress dialog (Escape or the window's close button:
\* QDialog.reject): progress_dialog.exec() returns, the thread goes on
DismissDialog ==
    /\ progress_dialog = "open" /\ state.stage # "closed"
    /\ progress_dialog' = "dismissed"
    /\ UNCHANGED <<state, worker, threads, temps, diffVars, applyVars,
                  backupVars, fetchVars>>

Alive == state.stage # "closed"

\* one call inside the worker's function
WorkerStep(w) ==
    /\ Alive /\ InFunction(w) /\ threads[w].left > 0
    /\ threads' = [threads EXCEPT ![w].left = @ - 1]
    /\ UNCHANGED <<state, worker, progress_dialog, temps, diffVars, applyVars,
                  backupVars, fetchVars>>

\* a run() that emits the result and goes on executing
WorkerReturn_goesOn(w) ==
    /\ Alive /\ InFunction(w) /\ threads[w].left = 0
    /\ threads[w].typ = ""
    /\ threads' = [threads EXCEPT ![w].typ = "result"]
    /\ UNCHANGED <<state, worker, progress_dialog, temps, diffVars, applyVars,
                  backupVars, fetchVars>>

\* the function returns and run() emits result('result', out), lines 147-148
WorkerReturn(w) ==
    /\ Alive /\ InFunction(w) /\ threads[w].left = 0
    /\ \E scanned \in ScanOutcomes :
          LET out == CASE threads[w].fn = "scan" -> scanned
                       [] threads[w].fn = "backup" -> [NoOut EXCEPT !.path = "zip"]
                       [] OTHER ->
                            [NoOut EXCEPT !.path =
                                do_apply_return(threads[w].backup_before_apply)]
          IN threads' = [threads EXCEPT ![w].pc = "emitted", ![w].typ = "result",
                                        ![w].out = out]
    /\ UNCHANGED <<state, worker, progress_dialog, temps, diffVars, applyVars,
                  backupVars, fetchVars>>

\* the function raises and run() emits result('error', ...), lines 149-151;
\* a failed _scan_all drops its TemporaryDirectory, whose finalizer removes it
WorkerRaise(w) ==
    /\ Alive /\ InFunction(w)
    /\ threads' = [threads EXCEPT ![w].pc = "emitted", ![w].typ = "error",
                                  ![w].left = 0, ![w].out = NoOut,
                                  ![w].err = raised(threads[w].fn)]
    /\ temps' = IF threads[w].fn = "scan"
                THEN [temps EXCEPT ![threads[w].repo] = "cleaned"]
                ELSE temps
    /\ UNCHANGED <<state, worker, progress_dialog, diffVars, applyVars,
                  backupVars, fetchVars>>

\* run() has returned: the thread is no longer running
ThreadExit(w) ==
    /\ Alive /\ threads[w].pc = "emitted"
    /\ threads' = [threads EXCEPT ![w].pc = "finished"]
    /\ UNCHANGED <<state, worker, progress_dialog, temps, diffVars, applyVars,
                  backupVars, fetchVars>>

Deliverable(w, fn) ==
    /\ Alive
    /\ threads[w].fn = fn
    /\ threads[w].pc \in {"emitted", "finished"}
    /\ ~threads[w].delivered

\* an on_scan_finish that does not look at typ
OnScanFinish_noErrorBranch(w) ==
    /\ Deliverable(w, "scan")
    /\ threads' = [threads EXCEPT ![w].delivered = TRUE, ![w].out = NoOut]
    /\ state' = set_stage([state EXCEPT !.deletes = threads[w].out.deletes,
                                        !.adds = threads[w].out.adds,
                                        !.replaces = threads[w].out.replaces,
                                        !.ignores = threads[w].out.ignores,
                                        !.repo_dir = threads[w].repo,
                                        !.repo_temp = threads[w].repo],
                          "summary")
    /\ UNCHANGED <<worker, progress_dialog, temps, diffVars, applyVars,
                  backupVars, fetchVars>>

\* on_scan_finish, lines 677-689
OnScanFinish(w) ==
    /\ Deliverable(w, "scan")
    /\ threads' = [threads EXCEPT ![w].delivered = TRUE, ![w].out = NoOut]
    /\ state' = IF threads[w].typ = "error"
                THEN show_error(state, threads[w].err.msg, threads[w].err.tb)
                ELSE set_stage([state EXCEPT !.deletes = threads[w].out.deletes,
                                             !.adds = threads[w].out.adds,
                                             !.replaces = threads[w].out.replaces,
                                             !.ignores = threads[w].out.ignores,
                                             !.repo_dir = threads[w].repo,
                                             !.repo_temp = threads[w].repo],
                               "summary")
    /\ UNCHANGED <<worker, progress_dialog, temps, diffVars, applyVars,
                  backupVars, fetchVars>>

\* on_backup_finish_dialog, lines 699-715
OnBackupFinishDialog(w) ==
    /\ Deliverable(w, "backup")
    /\ threads' = [threads EXCEPT ![w].delivered = TRUE, ![w].out = NoOut]
    /\ progress_dialog' = "none"
    /\ state' = IF threads[w].typ = "error"
                THEN show_error(state, threads[w].err.msg, threads[w].err.tb)
                ELSE [state EXCEPT !.backup_path = threads[w].out.path]
    /\ UNCHANGED <<worker, temps, diffVars, applyVars, backupVars, fetchVars>>

\* on_apply_finish, lines 717-743
OnApplyFinish(w) ==
    /\ Deliverable(w, "apply")
    /\ progress_dialog' = "none"
    /\ \E exit_ret \in BOOLEAN :
          IF threads[w].typ = "error"
          THEN /\ state' = show_error(state, threads[w].err.msg, threads[w].err.tb)
               /\ threads' = [threads EXCEPT ![w].delivered = TRUE, ![w].out = NoOut]
               /\ UNCHANGED <<worker, temps>>
          ELSE IF exit_ret
          THEN /\ state' = [state EXCEPT !.backup_path = threads[w].out.path,
                                         !.stage = "closed"]
               /\ worker' = 0 /\ threads' = <<>> /\ temps' = <<>>
          ELSE /\ state' = set_stage([state EXCEPT !.backup_path = threads[w].out.path],
                                     "success")
               /\ threads' = [threads EXCEPT ![w].delivered = TRUE, ![w].out = NoOut]
               /\ UNCHANGED <<worker, temps>>
    /\ UNCHANGED <<diffVars, applyVars, backupVars, fetchVars>>

\* TemporaryDirectory.cleanup()
cleanup(tmps, id) == IF id = 0 THEN tmps ELSE [tmps EXCEPT ![id] = "cleaned"]

\* goto_idle, lines 483-509 (the Return button of the error page)
GotoIdle ==
    /\ state.stage = "error" /\ UiFree
    /\ temps' = cleanup(temps, state.repo_temp)
    /\ state' = NoState
    /\ UNCHANGED <<worker, threads, progress_dialog, diffVars, applyVars,
                  backupVars, fetchVars>>

\* the Exit buttons (self.close), lines 298-299, 351-353, 388-391: the event
\* loop ends and the process with it, threads and temporary directories included
Close ==
    /\ state.stage \in {"needpath", "summary", "success"} /\ UiFree
    /\ state' = [state EXCEPT !.stage = "closed"]
    /\ worker' = 0 /\ threads' = <<>> /\ temps' = <<>>
    /\ UNCHANGED <<progress_dialog, diffVars, applyVars, backupVars, fetchVars>>

Init == SessIdle /\ DiffIdle /\ ApplyIdle /\ BackupIdle /\ FetchIdle

Next ==
    \/ TryStart
    \/ PickFolder
    \/ StartBackup
    \/ StartApply
    \/ DismissDialog
    \/ GotoIdle
    \/ Close
    \/ \E w \in ThreadIds : WorkerStep(w)
    \/ \E w \in ThreadIds : WorkerReturn(w)
    \/ \E w \in ThreadIds : WorkerRaise(w)
    \/ \E w \in ThreadIds : ThreadExit(w)
    \/ \E w \in ThreadIds : OnScanFinish(w)
    \/ \E w \in ThreadIds : OnBackupFinishDialog(w)
    \/ \E w \in ThreadIds : OnApplyFinish(w)

Spec == Init /\ [][Next]_vars

---------------------------------------------------------------------------
(* Claims about the session (checked under Spec).                          *)

\* the threads that are executing a long-running operation
Executing == {w \in ThreadIds : InFunction(w)}

\* C9 (the claim as stated): at most one long-running operation executes at
\* any time.
C9_OneOperationAtATime == Cardinality(Executing) <= 1

\* C10 (the claim as stated): no apply worker is still inside _do_apply on a
\* staging directory whose cleanup has been invoked.
C10_NoApplyOnCleanedStaging ==
    \A w \in ThreadIds :
        (threads[w].fn = "apply" /\ InFunction(w) /\ threads[w].repo # 0)
            => temps[threads[w].repo] # "cleaned"

\* C13: the value a successful apply hands to on_apply_finish is the zip's
\* path if and only if the apply was started with the backup flag set, and
\* the empty string otherwise; on_apply_finish stores exactly that value in
\* the session's backup_path, whichever answer the exit question gets.
C13_ApplyReturnsBackupPath ==
    [][/\ \A w \in ThreadIds :
            (OnApplyFinish(w) /\ threads[w].typ = "result") =>
                /\ threads[w].out.path = "zip" <=> threads[w].backup_before_apply
                /\ threads[w].out.path = "" <=> ~threads[w].backup_before_apply
                /\ state'.backup_path = threads[w].out.path
       /\ (state.stage # "success" /\ state'.stage = "success") =>
            \E w \in ThreadIds :
                /\ Deliverable(w, "apply") /\ threads[w].typ = "result"
                /\ state'.backup_path = threads[w].out.path
                /\ state'.backup_path = "zip" <=> threads[w].backup_before_apply
      ]_vars

\* an apply that took a backup has succeeded and its zip path is stored
C13_Witness ==
    /\ state.stage = "success"
    /\ state.backup_path = "zip"
    /\ \E w \in ThreadIds :
          /\ threads[w].fn = "apply" /\ threads[w].backup_before_apply
          /\ threads[w].typ = "result" /\ threads[w].delivered

\* the step hands the result of thread w to its handler
Delivers(w) ==
    /\ ~threads[w].delivered
    /\ Len(threads') = Len(threads)
    /\ threads'[w].delivered

\* C21: the step that hands a failed worker's result to the session leaves
\* the stage at error with the failure's message and trace, and every step
\* that moves the session to summary or success hands over a success result.
C21_FailureLeadsToError ==
    [][/\ \A w \in ThreadIds :
            (threads[w].typ = "error" /\ Delivers(w)) =>
                /\ state'.stage = "error"
                /\ state'.error = raised(threads[w].fn).msg
                /\ state'.err_details = raised(threads[w].fn).tb
       /\ (state'.stage \in {"summary", "success"} /\ state.stage # state'.stage) =>
            \E w \in ThreadIds : threads[w].typ = "result" /\ Delivers(w)
      ]_vars

\* a failed apply has put the session into the error stage
C21_Witness ==
    /\ state.stage = "error"
    /\ state.error = raised("apply").msg
    /\ state.err_details = raised("apply").tb

\* C22 (the claim as stated): the step that leaves the error stage for idle
\* resets every field of the session state (stage idle; mods_path, repo_dir,
\* repo_temp, backup_path and error empty; the four buckets empty) and has
\* invoked cleanup on the staging directory the session held; nothing of the
\* run it discards can be resumed: no worker of that run has a result still
\* to deliver into the new session, and summary is entered afterwards only
\* by delivering the result of a scan started anew.
C22_RecoveryDiscardsState ==
    [][/\ (state.stage = "error" /\ state'.stage = "idle") =>
            /\ state'.mods_path = FALSE
            /\ state'.repo_dir = 0 /\ state'.repo_temp = 0
            /\ state'.backup_path = "" /\ state'.error = ""
            /\ state'.deletes = <<>> /\ state'.adds = <<>>
            /\ state'.replaces = <<>> /\ state'.ignores = <<>>
            /\ state.repo_temp # 0 => temps'[state.repo_temp] = "cleaned"
            /\ \A w \in ThreadIds : threads[w].delivered
       /\ state.stage \in {"error", "idle"} =>
            \A w \in ThreadIds : threads[w].fn = "scan" => threads[w].delivered
       /\ (state'.stage = "summary" /\ state.stage # "summary") =>
            /\ state.stage = "scanning"
            /\ \E w \in ThreadIds :
                  threads[w].fn = "scan" /\ threads[w].typ = "result" /\ Delivers(w)
      ]_vars

\* the scheduler lets every thread that is inside its function run on
WorkerRuns(w) ==
    /\ w \in ThreadIds
    /\ WorkerStep(w) \/ WorkerReturn(w) \/ WorkerRaise(w)

FairSpec == Spec /\ \A w \in 1..MaxThreads : WF_vars(WorkerRuns(w))

\* C25: a thread has emitted a terminal event exactly when it has left its
\* function, and that event is a result or an error, never both; once it is
\* emitted the thread does no further work (so sends no progress) and its
\* terminal event does not change; and every thread that runs leaves its
\* function (or the process ends).
C25_OneTerminalEvent ==
    /\ [](\A w \in ThreadIds :
            /\ threads[w].typ \in {"", "result", "error"}
            /\ threads[w].typ = "" <=> InFunction(w)
            /\ threads[w].typ = "error" <=> threads[w].err # NoErr
            /\ threads[w].typ = "error" => threads[w].out = NoOut)
    /\ [][\A w \in ThreadIds :
            (~InFunction(w) /\ w \in DOMAIN threads') =>
                /\ threads'[w].typ = threads[w].typ
                /\ threads'[w].err = threads[w].err
                /\ threads'[w].left = threads[w].left
                /\ ~(threads'[w].pc = "running")]_vars
    /\ \A w \in 1..MaxThreads :
          (w \in ThreadIds /\ InFunction(w)) ~> (w \notin ThreadIds \/ ~InFunction(w))

\* one worker has ended with a result and another with an error
C25_Witness ==
    \E v, w \in ThreadIds :
        /\ threads[v].typ = "result" /\ threads[v].pc = "finished"
        /\ threads[w].typ = "error" /\ threads[w].pc = "finished"


\* C27 (the claim as stated): while the stage is "scanning" there is a scan
\* worker that is running or whose result is still to be delivered, so that
\* the session can leave the stage for the summary or the error page.
C27_ScanningHasWorker ==
    state.stage = "scanning" =>
        \E w \in ThreadIds : threads[w].fn = "scan" /\ ~threads[w].delivered

=============================================================================
